---- MODULE Spec2Model ----
(***************************************************************************)
(* A model of sonnixgres (src/sonnixgres.py): the provisioning and query   *)
(* helpers that run on one psycopg2 connection, and the MetadataCache.     *)
(*                                                                         *)
(* The database engine and the driver are collaborators; the model gives   *)
(* them the behaviour the code relies on:                                  *)
(*   - a psycopg2 connection is not in autocommit mode: the first          *)
(*     statement opens a transaction, which stays open until commit(),     *)
(*     rollback() or close();                                              *)
(*   - a statement the server rejects aborts the transaction: every later  *)
(*     statement is rejected until rollback(), and commit() of an aborted  *)
(*     transaction rolls it back without raising;                          *)
(*   - a parameter the driver cannot adapt raises in the client, before    *)
(*     anything is sent: the transaction stays as it was;                  *)
(*   - SET search_path inside a transaction is undone when the transaction *)
(*     rolls back and becomes the session's value when it commits.         *)
(***************************************************************************)
EXTENDS Integers, Sequences, FiniteSets, TLC

\* ------------------------------------------------------------ bounds
\* most rows the database holds in the model
MaxRows == 2

\* ------------------------------------------------------------ inputs
Tables == {"t1", "t2"}
Views == {"v1"}
NULL == "NULL"
\* a Python object the driver has no adapter for
OBJ == "#obj"
DefaultPath == "public"

\* The datasets handed to populate_table: cols is dataframe.columns,
\* rows is dataframe.values.tolist().
Dataset(id) ==
    CASE id = "empty"  -> [cols |-> <<>>, rows |-> <<>>]
      [] id = "ab"     -> [cols |-> <<"a", "b">>, rows |-> << <<"x", "y">> >>]
      [] id = "bc"     -> [cols |-> <<"b", "c">>, rows |-> << <<"y2", "z">> >>]
      [] id = "bad"    -> [cols |-> <<"c">>, rows |-> << <<"x">>, <<OBJ>> >>]
      [] id = "dup"    -> [cols |-> <<"a", "a">>, rows |-> << <<"x", "y">> >>]

DatasetIds == {"empty", "ab", "bc", "bad", "dup"}

Range(s) == {s[i] : i \in DOMAIN s}

\* ------------------------------------------------------------ database
Absent == [exists |-> FALSE, cols |-> {}, rows |-> <<>>]
EmptyDb == [tables |-> [t \in Tables |-> Absent], views |-> {}]

VARIABLES
    schema,    \* credentials.schema, "" when DB_SCHEMA is not set
    conn,      \* the caller's connection: "none", "open" or "closed"
    txn,       \* the session's transaction: "idle", "intrans" or "aborted"
    path,      \* the session's search_path
    cpath,     \* the search_path a rollback restores
    db,        \* the committed database
    work,      \* the database as the open transaction sees it
    last,      \* the last call: what was called and how it ended
    hist       \* per table: the populate_table calls made on it
               \* since create_table created it

\* MetadataCache and the threads that call it
VARIABLES
    lock,      \* self.lock: the thread that holds it, 0 when free
    cache,     \* self.metadata_cache
    pc,        \* per thread: where it is in refresh_metadata_cache
    meta,      \* per thread: the local MetaData() it reflects into
    idx,       \* per thread: the table of self.tables it reflects next
    calls,     \* per thread: the refresh calls it has made
    ret        \* per thread: how its last refresh call ended

\* the thread that calls display_metadata
VARIABLES
    dpc,       \* where it is in display_metadata
    dseen,     \* the snapshot the test of line 107 read
    diter,     \* the tables the for loop of line 111 iterates
    dpos,      \* the position of the loop in diter
    out,       \* the statements logged so far, with where each came from
    dret       \* how the last display_metadata call ended

dbvars == <<schema, conn, txn, path, cpath, db, work, last, hist>>
\* format_column_details applied to one column
VARIABLES
    fcol,      \* the column handed to format_column_details
    fout       \* the string it returned, "-" before the call

refreshvars == <<lock, cache, pc, meta, idx, calls, ret>>
displayvars == <<dpc, dseen, diter, dpos, out, dret>>
formatvars == <<fcol, fout>>
cachevars == <<refreshvars, displayvars, formatvars>>
vars == <<dbvars, cachevars>>

\* The part of the state the driver calls act on, with the exception in
\* flight (err): "none", "server" (the server rejected a statement) or
\* "client" (raised in the driver or in Python, nothing was sent).
Env == [conn |-> conn, txn |-> txn, path |-> path, cpath |-> cpath,
        db |-> db, work |-> work, err |-> "none"]

\* ------------------------------------------------------------ statements
\* The statements the code issues, as the server runs them against the
\* database w the transaction sees.
CreateTableStmt(t) == [k |-> "create", t |-> t]
AddColumnStmt(t, c) == [k |-> "addcol", t |-> t, c |-> c]
InsertStmt(t, cols, row) == [k |-> "insert", t |-> t, cols |-> cols, row |-> row]
UpdateStmt(t) == [k |-> "update", t |-> t]
ViewStmt(v, t) == [k |-> "view", v |-> v, t |-> t]
SelectStmt(t) == [k |-> "select", t |-> t]

NoDuplicates(s) == \A i, j \in DOMAIN s : s[i] = s[j] => i = j

\* the server rejects the statement
Rejected(w, s) ==
    CASE s.k = "create" -> FALSE
      [] s.k = "addcol" -> ~w.tables[s.t].exists
      [] s.k = "insert" -> \/ ~w.tables[s.t].exists
                           \/ s.cols = <<>>
                           \/ ~NoDuplicates(s.cols)
                           \/ ~(Range(s.cols) \subseteq w.tables[s.t].cols)
      [] s.k = "update" -> \/ ~w.tables[s.t].exists
                           \/ "a" \notin w.tables[s.t].cols
      [] s.k = "view"   -> ~w.tables[s.t].exists
      [] s.k = "select" -> ~w.tables[s.t].exists

\* CREATE TABLE IF NOT EXISTS t ()
CreateIfAbsent(tbl) ==
    IF tbl.exists THEN tbl ELSE [exists |-> TRUE, cols |-> {}, rows |-> <<>>]

\* ALTER TABLE t ADD COLUMN IF NOT EXISTS c TEXT: the rows already there
\* are null in the new column
AddColumn(tbl, c) ==
    IF c \in tbl.cols THEN tbl
    ELSE [exists |-> TRUE,
          cols |-> tbl.cols \cup {c},
          rows |-> [i \in DOMAIN tbl.rows |->
                      [k \in tbl.cols \cup {c} |->
                          IF k = c THEN NULL ELSE tbl.rows[i][k]]]]

Position(cols, c) == CHOOSE i \in DOMAIN cols : cols[i] = c

\* faulty variant: the values bound in reverse order
InsertRowReversed(tbl, cols, row) ==
    [tbl EXCEPT !.rows = Append(@,
        [k \in tbl.cols |->
            IF k \in Range(cols)
            THEN row[Len(cols) + 1 - Position(cols, k)] ELSE NULL])]

\* INSERT INTO t (cols) VALUES (row): the columns not named are null
InsertRow(tbl, cols, row) ==
    [tbl EXCEPT !.rows = Append(@,
        [k \in tbl.cols |->
            IF k \in Range(cols) THEN row[Position(cols, k)] ELSE NULL])]

\* UPDATE t SET a = 'u'
UpdateRows(tbl) ==
    [tbl EXCEPT !.rows = [i \in DOMAIN @ |-> [@[i] EXCEPT !["a"] = "u"]]]

Effect(w, s) ==
    CASE s.k = "create" -> [w EXCEPT !.tables[s.t] = CreateIfAbsent(@)]
      [] s.k = "addcol" -> [w EXCEPT !.tables[s.t] = AddColumn(@, s.c)]
      [] s.k = "insert" -> [w EXCEPT !.tables[s.t] = InsertRow(@, s.cols, s.row)]
      [] s.k = "update" -> [w EXCEPT !.tables[s.t] = UpdateRows(@)]
      [] s.k = "view"   -> [w EXCEPT !.views = @ \cup {s.v}]
      [] s.k = "select" -> w

\* ------------------------------------------------------------ driver
\* cursor.execute(stmt): skipped when an exception is already in flight
Execute(e, s) ==
    IF e.err # "none" THEN e
    ELSE IF e.conn # "open" THEN [e EXCEPT !.err = "client"]
    ELSE IF e.txn = "aborted" THEN [e EXCEPT !.err = "server"]
    ELSE IF Rejected(e.work, s)
         THEN [e EXCEPT !.txn = "aborted", !.work = e.db, !.err = "server"]
    ELSE [e EXCEPT !.txn = "intrans", !.work = Effect(e.work, s)]

\* cursor.execute("SET search_path TO %s", (schema,))
ExecuteSet(e, s) ==
    IF e.err # "none" THEN e
    ELSE IF e.conn # "open" THEN [e EXCEPT !.err = "client"]
    ELSE IF e.txn = "aborted" THEN [e EXCEPT !.err = "server"]
    ELSE [e EXCEPT !.txn = "intrans", !.path = s]

\* connection.commit(): committing an aborted transaction rolls it back
Commit(e) ==
    IF e.err # "none" THEN e
    ELSE IF e.conn # "open" THEN [e EXCEPT !.err = "client"]
    ELSE IF e.txn = "aborted"
         THEN [e EXCEPT !.txn = "idle", !.work = e.db, !.path = e.cpath]
    ELSE [e EXCEPT !.txn = "idle", !.db = e.work, !.cpath = e.path]

\* connection.rollback(), called from an except block: a closed connection
\* raises again, the exception stays in flight either way
Rollback(e) ==
    IF e.conn # "open" THEN e
    ELSE [e EXCEPT !.txn = "idle", !.work = e.db, !.path = e.cpath]

\* connection.close(): the server drops the open transaction
Close(e) ==
    [e EXCEPT !.conn = "closed", !.txn = "idle", !.work = e.db,
              !.path = DefaultPath, !.cpath = DefaultPath]

\* ------------------------------------------------------------ the calls
\* Each call is a function of the state it finds: the result carries the
\* exception it raises, if any, in err.

\* create_table: no rollback on the failure path
CreateTableCall(e, t) == Commit(Execute(e, CreateTableStmt(t)))

\* populate_table, the loop over dataframe.columns
\* faulty variant: a commit after every ADD COLUMN
RECURSIVE AddColumnsCommitted(_, _, _)
AddColumnsCommitted(e, t, cols) ==
    IF cols = <<>> THEN e
    ELSE AddColumnsCommitted(Commit(Execute(e, AddColumnStmt(t, Head(cols)))),
                             t, Tail(cols))

RECURSIVE AddColumns(_, _, _)
AddColumns(e, t, cols) ==
    IF cols = <<>> THEN e
    ELSE AddColumns(Execute(e, AddColumnStmt(t, Head(cols))), t, Tail(cols))

Adaptable(row) == OBJ \notin Range(row)

\* cursor.executemany: one execute per row, in order; a row the driver
\* cannot adapt raises before it is sent, after the rows before it ran
RECURSIVE ExecuteMany(_, _, _, _)
ExecuteMany(e, t, cols, rows) ==
    IF rows = <<>> \/ e.err # "none" THEN e
    ELSE IF e.conn = "open" /\ ~Adaptable(Head(rows))
         THEN [e EXCEPT !.err = "client"]
    ELSE ExecuteMany(Execute(e, InsertStmt(t, cols, Head(rows))),
                     t, cols, Tail(rows))

\* faulty variant: populate_table without connection.commit()
PopulateNoCommit(e, t, d) ==
    ExecuteMany(AddColumns(e, t, d.cols), t, d.cols, d.rows)

\* populate_table: no rollback on the failure path
PopulateTableCall(e, t, d) ==
    Commit(ExecuteMany(AddColumns(e, t, d.cols), t, d.cols, d.rows))

\* faulty variant: the connection closed on the success path only
FinallyOnSuccess(e, close) == IF close /\ e.err = "none" THEN Close(e) ELSE e

\* the finally block of query_database, update_records and create_view
Finally(e, close) == IF close THEN Close(e) ELSE e

\* faulty variant: no connection.rollback() in the except block
TransactNoRollback(e, s) == Commit(Execute(e, s))

\* the try/except of update_records and create_view around their statement
Transact(e, s) ==
    LET r == Commit(Execute(e, s))
    IN  IF r.err # "none" THEN Rollback(r) ELSE r

UpdateRecordsCall(e, t, close) == Finally(Transact(e, UpdateStmt(t)), close)

CreateViewCall(e, v, t, close) == Finally(Transact(e, ViewStmt(v, t)), close)

\* query_database: pandas.read_sql runs the query on the connection and
\* rolls the connection back when the query fails; nothing commits
QueryDatabaseCall(e, t, close) ==
    LET r == Execute(e, SelectStmt(t))
    IN  Finally(IF r.err # "none" THEN Rollback(r) ELSE r, close)

Result(e) == IF e.err = "none" THEN "ok" ELSE "error"

\* what a call leaves of the cursor it opened: create_table and
\* populate_table close it on the success path only
CursorAfter(e0, e) ==
    IF e0.conn # "open" THEN "none"
    ELSE IF e.err = "none" THEN "closed" ELSE "open"

\* update_records and create_view open it in a with block
ScopedCursor(e0) == IF e0.conn # "open" THEN "none" ELSE "closed"

\* last: the call (op, t, ds, close), how it ended (res), the cursor it
\* opened (cur) and, for create_connection, the session it opened (sess)
CallBy(op, t, ds, close, res, cur, sess) ==
    [op |-> op, t |-> t, ds |-> ds, close |-> close, res |-> res,
     cur |-> cur, sess |-> sess]

Call(op, t, ds, close, res, cur) == CallBy(op, t, ds, close, res, cur, "none")

NoCall == Call("none", "-", "-", FALSE, "ok", "none")

\* ------------------------------------------------------------ history
\* hist[t].k is "none" until create_table creates t, then "only" with
\* hist[t].ds the dataset ids populate_table put into t, in order, and
\* "other" once t saw anything else: a populate_table that raised, an
\* update, a third dataset.
Untracked == [k |-> "none", ds |-> <<>>]
Other == [k |-> "other", ds |-> <<>>]
Only(ds) == [k |-> "only", ds |-> ds]

HistCreate(h, t, e0, e) ==
    IF ~e0.db.tables[t].exists /\ e.db.tables[t].exists
    THEN [h EXCEPT ![t] = Only(<<>>)] ELSE h

HistPopulate(h, t, id, e) ==
    IF h[t].k # "only" THEN h
    ELSE IF e.err = "none" /\ Len(h[t].ds) < 2
         THEN [h EXCEPT ![t] = Only(Append(h[t].ds, id))]
    ELSE [h EXCEPT ![t] = Other]

HistUpdate(h, t, e) ==
    IF e.err = "none" /\ h[t].k = "only" THEN [h EXCEPT ![t] = Other] ELSE h

RECURSIVE SumRows(_, _)
SumRows(w, ts) ==
    IF ts = {} THEN 0
    ELSE LET t == CHOOSE x \in ts : TRUE
         IN  Len(w.tables[t].rows) + SumRows(w, ts \ {t})

\* the rows in all tables of w, which the model bounds
TotalRows(w) == SumRows(w, Tables)

\* ------------------------------------------------------------ actions
Install(e) ==
    /\ conn' = e.conn
    /\ txn' = e.txn
    /\ path' = e.path
    /\ cpath' = e.cpath
    /\ db' = e.db
    /\ work' = e.work

InitDb ==
    /\ schema \in {"", "s"}
    /\ conn = "none"
    /\ txn = "idle"
    /\ path = DefaultPath
    /\ cpath = DefaultPath
    /\ db = EmptyDb
    /\ work = EmptyDb
    /\ last = NoCall
    /\ hist = [t \in Tables |-> Untracked]

\* create_connection / _get_connection, with the outcome of
\* psycopg2.connect and of the SET statement as the environment gives it
GetConnectionCall(e, sch, outcome) ==
    IF outcome = "refused" THEN [e EXCEPT !.err = "client"]
    ELSE LET c == [e EXCEPT !.conn = "open", !.txn = "idle",
                            !.path = DefaultPath, !.cpath = DefaultPath,
                            !.work = e.db]
         IN  IF sch = "" THEN c
             ELSE IF outcome = "set_fails"
                  THEN [c EXCEPT !.txn = "aborted", !.err = "server"]
             ELSE ExecuteSet(c, sch)

\* the session the call opened, as the call leaves it: when SET raises,
\* the handle is a local of the frame that raised and nothing closes it
SessionAfter(e) == IF e.conn = "open" THEN "open" ELSE "none"

CreateConnection ==
    \E outcome \in {"ok", "refused", "set_fails"} :
        /\ conn \in {"none", "closed"}
        /\ outcome = "set_fails" => schema # ""
        /\ LET e == GetConnectionCall(Env, schema, outcome)
           IN  /\ IF e.err = "none" THEN Install(e)
                  ELSE UNCHANGED <<conn, txn, path, cpath, db, work>>
               /\ last' = CallBy("create_connection", "-", "-", FALSE,
                                 Result(e), "none", SessionAfter(e))
        /\ UNCHANGED <<schema, hist, cachevars>>

CreateTable ==
    \E t \in Tables :
        /\ conn # "none"
        /\ LET e == CreateTableCall(Env, t)
           IN  /\ Install(e)
               /\ last' = Call("create_table", t, "-", FALSE, Result(e),
                               CursorAfter(Env, e))
               /\ hist' = HistCreate(hist, t, Env, e)
        /\ UNCHANGED <<schema, cachevars>>

PopulateTable ==
    \E t \in Tables, id \in DatasetIds :
        /\ conn # "none"
        /\ TotalRows(work) + Len(Dataset(id).rows) <= MaxRows
        /\ LET e == PopulateTableCall(Env, t, Dataset(id))
           IN  /\ Install(e)
               /\ last' = Call("populate_table", t, id, FALSE, Result(e),
                               CursorAfter(Env, e))
               /\ hist' = HistPopulate(hist, t, id, e)
        /\ UNCHANGED <<schema, cachevars>>

UpdateRecords ==
    \E t \in Tables, close \in BOOLEAN :
        /\ conn # "none"
        /\ LET e == UpdateRecordsCall(Env, t, close)
           IN  /\ Install(e)
               /\ last' = Call("update_records", t, "-", close, Result(e),
                               ScopedCursor(Env))
               /\ hist' = HistUpdate(hist, t, e)
        /\ UNCHANGED <<schema, cachevars>>

CreateView ==
    \E v \in Views, t \in Tables, close \in BOOLEAN :
        /\ conn # "none"
        /\ LET e == CreateViewCall(Env, v, t, close)
           IN  /\ Install(e)
               /\ last' = Call("create_view", "-", "-", close, Result(e),
                               ScopedCursor(Env))
        /\ UNCHANGED <<schema, hist, cachevars>>

QueryDatabase ==
    \E t \in Tables, close \in BOOLEAN :
        /\ conn # "none"
        /\ LET e == QueryDatabaseCall(Env, t, close)
           IN  /\ Install(e)
               /\ last' = Call("query_database", "-", "-", close, Result(e),
                               "none")
        /\ UNCHANGED <<schema, hist, cachevars>>

\* query_database, update_records and create_view called without a
\* connection raise ConnectionError before anything else
NoConnection ==
    \E op \in {"query_database", "update_records", "create_view"} :
        /\ conn = "none"
        /\ last' = Call(op, "-", "-", TRUE, "error", "none")
        /\ UNCHANGED <<schema, conn, txn, path, cpath, db, work, hist, cachevars>>

\* the caller's own connection.close()
CloseConnection ==
    /\ conn = "open"
    /\ Install(Close(Env))
    /\ last' = Call("close", "-", "-", FALSE, "ok", "none")
    /\ UNCHANGED <<schema, hist, cachevars>>

\* ------------------------------------------------------------ MetadataCache
\* refresh calls a thread makes in the model
MaxCalls == 2

Threads == {1, 2}
\* self.tables, from DB_TABLES
CfgTables == <<"t1", "t2">>

\* what reflection finds for a table: its columns in catalog order
Column(name, type, pk) == [name |-> name, type |-> type, pk |-> pk]
Catalog(t) ==
    IF t = "t1"
    THEN <<Column("id", "INTEGER", TRUE), Column("a", "TEXT", FALSE)>>
    ELSE <<Column("b", "TEXT", FALSE), Column("n", "NUMERIC", FALSE)>>

\* a reflected table, with the refresh call whose reflection produced it
Reflected(t, p, n) == [name |-> t, cols |-> Catalog(t), by |-> p, n |-> n]

\* self.metadata_cache = None
NoCache == [installed |-> FALSE, tables |-> <<>>]
\* MetaData()
NewMetaData == <<>>

InitCache ==
    /\ lock = 0
    /\ cache = NoCache
    /\ pc = [p \in Threads |-> "idle"]
    /\ meta = [p \in Threads |-> NewMetaData]
    /\ idx = [p \in Threads |-> 1]
    /\ calls = [p \in Threads |-> 0]
    /\ ret = [p \in Threads |-> "none"]
    /\ dpc = "idle"
    /\ dseen = NoCache
    /\ diter = <<>>
    /\ dpos = 1
    /\ out = <<>>
    /\ dret = "none"

\* the columns format_column_details is tried on: the type names of the
\* mapping and some outside it
ColumnNames == {"id", "a", "n"}
TypeNames == {"INTEGER", "BIGINT", "TEXT", "BOOLEAN", "DATE", "FLOAT",
              "DOUBLE", "SERIAL", "NUMERIC", "VARCHAR(50)", "NULL"}
Columns == {Column(name, type, pk) :
                name \in ColumnNames, type \in TypeNames, pk \in BOOLEAN}

NoFormat ==
    /\ fcol = Column("id", "INTEGER", TRUE)
    /\ fout = "-"

Init == InitDb /\ InitCache /\ NoFormat

InitFormat == InitDb /\ InitCache /\ fcol \in Columns /\ fout = "-"

\* a thread calls refresh_metadata_cache
RefreshCall(p) ==
    /\ pc[p] = "idle"
    /\ calls[p] < MaxCalls
    /\ calls' = [calls EXCEPT ![p] = @ + 1]
    /\ pc' = [pc EXCEPT ![p] = "acquire"]
    /\ ret' = [ret EXCEPT ![p] = "none"]
    /\ UNCHANGED <<lock, cache, meta, idx>>

\* faulty variant: the loop entered without waiting for the lock
RefreshAcquireNoWait(p) ==
    /\ pc[p] = "acquire"
    /\ lock' = p
    /\ meta' = [meta EXCEPT ![p] = NewMetaData]
    /\ idx' = [idx EXCEPT ![p] = 1]
    /\ pc' = [pc EXCEPT ![p] = "reflect"]
    /\ UNCHANGED <<cache, calls, ret>>

\* with self.lock: ... metadata = MetaData()
RefreshAcquire(p) ==
    /\ pc[p] = "acquire"
    /\ lock = 0
    /\ lock' = p
    /\ meta' = [meta EXCEPT ![p] = NewMetaData]
    /\ idx' = [idx EXCEPT ![p] = 1]
    /\ pc' = [pc EXCEPT ![p] = "reflect"]
    /\ UNCHANGED <<cache, calls, ret>>

\* where the thread goes after reflecting table i
AfterReflect(i) == IF i = Len(CfgTables) THEN "swap" ELSE "reflect"

\* one turn of the loop: metadata.reflect(only=[table]) returns or raises
RefreshReflect(p) ==
    \E ok \in BOOLEAN :
        /\ pc[p] = "reflect"
        /\ IF ok
           THEN /\ meta' = [meta EXCEPT
                              ![p] = Append(@, Reflected(CfgTables[idx[p]], p, calls[p]))]
                /\ idx' = [idx EXCEPT ![p] = @ + 1]
                /\ pc' = [pc EXCEPT ![p] = AfterReflect(idx[p])]
           ELSE /\ pc' = [pc EXCEPT ![p] = "except"]
                /\ UNCHANGED <<meta, idx>>
        /\ UNCHANGED <<lock, cache, calls, ret>>

\* the snapshot refresh installs after the loop
Installed(m) == [installed |-> TRUE, tables |-> m]

\* self.metadata_cache = metadata
RefreshSwap(p) ==
    /\ pc[p] = "swap"
    /\ cache' = Installed(meta[p])
    /\ pc' = [pc EXCEPT ![p] = "exit"]
    /\ ret' = [ret EXCEPT ![p] = "refreshed"]
    /\ UNCHANGED <<lock, meta, idx, calls>>

\* faulty variant: the assignment moved to where the failure path runs it too
CachePartial(c, m) == Installed(m)

\* faulty variant: the cache cleared when a refresh fails
CacheDropped(c, m) == NoCache

\* what the except block leaves installed
CacheAfterFailure(c, m) == c

\* except Exception as e: logger.error(...)
RefreshExcept(p) ==
    /\ pc[p] = "except"
    /\ cache' = CacheAfterFailure(cache, meta[p])
    /\ pc' = [pc EXCEPT ![p] = "exit"]
    /\ ret' = [ret EXCEPT ![p] = "logged"]
    /\ UNCHANGED <<lock, meta, idx, calls>>

\* faulty variant: the lock released only when the refresh succeeded
RefreshExitKeepsLock(p) ==
    /\ pc[p] = "exit"
    /\ lock' = IF ret[p] = "logged" THEN lock ELSE 0
    /\ pc' = [pc EXCEPT ![p] = "idle"]
    /\ UNCHANGED <<cache, meta, idx, calls, ret>>

\* the with block releases the lock and the call returns
RefreshExit(p) ==
    /\ pc[p] = "exit"
    /\ lock' = 0
    /\ pc' = [pc EXCEPT ![p] = "idle"]
    /\ UNCHANGED <<cache, meta, idx, calls, ret>>

\* ------------------------------------------------------------ rendering
\* faulty variant: the type name itself as the default of the lookup
SqlTypeOrName(type) == IF type = "INTEGER" THEN "INT" ELSE type

\* sql_type_mapping.get(str(column.type), 'VARCHAR(255)')
SqlType(type) ==
    CASE type = "INTEGER" -> "INT"
      [] type = "BIGINT"  -> "BIGINT"
      [] type = "TEXT"    -> "VARCHAR(255)"
      [] type = "BOOLEAN" -> "BOOLEAN"
      [] type = "DATE"    -> "DATE"
      [] type = "FLOAT"   -> "FLOAT"
      [] type = "DOUBLE"  -> "DOUBLE PRECISION"
      [] type = "SERIAL"  -> "SERIAL"
      [] OTHER            -> "VARCHAR(255)"

\* format_column_details
FormatColumnDetails(column) ==
    LET details == column.name \o " " \o SqlType(column.type)
    IN  IF column.pk THEN details \o " PRIMARY KEY" ELSE details

\* ",\n    ".join(column_definitions)
RECURSIVE Join(_, _)
Join(strs, sep) ==
    IF strs = <<>> THEN ""
    ELSE IF Len(strs) = 1 THEN strs[1]
    ELSE strs[1] \o sep \o Join(Tail(strs), sep)

\* column_definitions of line 113
ColumnDefinitions(cols) == [i \in DOMAIN cols |-> FormatColumnDetails(cols[i])]

\* create_table_statement of line 114
CreateTableStatement(name, cols) ==
    "CREATE TABLE " \o name \o " (\n    "
        \o Join(ColumnDefinitions(cols), ",\n    ") \o "\n);"

\* the refresh call a reflected table came from
Origin(tbl) == <<tbl.by, tbl.n>>

\* self.metadata_cache.tables[table_name]
HasTable(c, name) == \E i \in DOMAIN c.tables : c.tables[i].name = name
Lookup(c, name) ==
    c.tables[CHOOSE i \in DOMAIN c.tables : c.tables[i].name = name]

\* a thread calls display_metadata
DisplayCall ==
    /\ dpc = "idle"
    /\ dpc' = "check"
    /\ dseen' = NoCache
    /\ diter' = <<>>
    /\ dpos' = 1
    /\ out' = <<>>
    /\ dret' = "none"
    /\ UNCHANGED refreshvars

\* if not self.metadata_cache: log and return
DisplayCheck ==
    /\ dpc = "check"
    /\ dseen' = cache
    /\ dpc' = IF cache.installed THEN "iterate" ELSE "idle"
    /\ dret' = IF cache.installed THEN "none" ELSE "empty"
    /\ UNCHANGED <<diter, dpos, out, refreshvars>>

\* for table_name in self.metadata_cache.tables: the attribute is read
\* again, the loop iterates the tables of what it holds now
DisplayIterate ==
    /\ dpc = "iterate"
    /\ diter' = cache.tables
    /\ dpos' = 1
    /\ dpc' = IF cache.tables = <<>> THEN "idle" ELSE "render"
    /\ dret' = IF cache.tables = <<>> THEN "rendered" ELSE "none"
    /\ UNCHANGED <<dseen, out, refreshvars>>

\* the statement logged for table name, looked up in snapshot c
Rendered(name, from, c) ==
    [stmt |-> CreateTableStatement(name, Lookup(c, name).cols),
     name |-> from,
     cols |-> Origin(Lookup(c, name))]

\* one turn of the loop: table = self.metadata_cache.tables[table_name]
\* reads the attribute once more, then the statement is built and logged
DisplayRender ==
    /\ dpc = "render"
    /\ IF HasTable(cache, diter[dpos].name)
       THEN /\ out' = Append(out, Rendered(diter[dpos].name,
                                            Origin(diter[dpos]), cache))
            /\ dpos' = dpos + 1
            /\ dpc' = IF dpos = Len(diter) THEN "idle" ELSE "render"
            /\ dret' = IF dpos = Len(diter) THEN "rendered" ELSE "none"
       ELSE /\ dpc' = "idle"
            /\ dret' = "raised"
            /\ UNCHANGED <<out, dpos>>
    /\ UNCHANGED <<dseen, diter, refreshvars>>

Enter == \E p \in Threads : RefreshCall(p) /\ UNCHANGED <<dbvars, displayvars, formatvars>>
Acquire == \E p \in Threads : RefreshAcquire(p) /\ UNCHANGED <<dbvars, displayvars, formatvars>>
Reflect == \E p \in Threads : RefreshReflect(p) /\ UNCHANGED <<dbvars, displayvars, formatvars>>
Swap == \E p \in Threads : RefreshSwap(p) /\ UNCHANGED <<dbvars, displayvars, formatvars>>
Except == \E p \in Threads : RefreshExcept(p) /\ UNCHANGED <<dbvars, displayvars, formatvars>>
Exit == \E p \in Threads : RefreshExit(p) /\ UNCHANGED <<dbvars, displayvars, formatvars>>
Display == DisplayCall /\ UNCHANGED <<dbvars, formatvars>>
Check == DisplayCheck /\ UNCHANGED <<dbvars, formatvars>>
Iterate == DisplayIterate /\ UNCHANGED <<dbvars, formatvars>>
Render == DisplayRender /\ UNCHANGED <<dbvars, formatvars>>

NextCache ==
    \/ Enter
    \/ Acquire
    \/ Reflect
    \/ Swap
    \/ Except
    \/ Exit
    \/ Display
    \/ Check
    \/ Iterate
    \/ Render

SpecCache == Init /\ [][NextCache]_vars

\* a step of thread p inside refresh_metadata_cache
RefreshStep(p) ==
    /\ \/ RefreshAcquire(p)
       \/ RefreshReflect(p)
       \/ RefreshSwap(p)
       \/ RefreshExcept(p)
       \/ RefreshExit(p)
    /\ UNCHANGED <<dbvars, displayvars, formatvars>>

\* Every thread that is inside refresh_metadata_cache and can take a step
\* eventually takes one: a thread is scheduled, a reflect call returns or
\* raises, and a thread waiting for a lock that stays free gets it.
SpecCacheFair == SpecCache /\ \A p \in Threads : WF_vars(RefreshStep(p))

\* format_column_details called on the column
Format ==
    /\ fout = "-"
    /\ fout' = FormatColumnDetails(fcol)
    /\ UNCHANGED <<fcol, dbvars, refreshvars, displayvars>>

NextFormat == Format

SpecFormat == InitFormat /\ [][NextFormat]_vars

Next ==
    \/ CreateConnection
    \/ CreateTable
    \/ PopulateTable
    \/ UpdateRecords
    \/ CreateView
    \/ QueryDatabase
    \/ NoConnection
    \/ CloseConnection

Spec == Init /\ [][Next]_vars

\* ------------------------------------------------------------ claims
PopulatedOk == last.op = "populate_table" /\ last.res = "ok"

\* no step takes a table or a column away from the committed database
ColumnsKept ==
    \A t \in Tables :
        /\ db.tables[t].exists => db'.tables[t].exists
        /\ db.tables[t].cols \subseteq db'.tables[t].cols

\* C1: when populate_table(conn, T, D) has returned successfully, the
\* committed table T has every column D names; and no step of any call
\* removes a committed column or table, so the columns T had before and D
\* does not name are still there.
C1_ColumnSuperset ==
    /\ [](PopulatedOk =>
            Range(Dataset(last.ds).cols) \subseteq db.tables[last.t].cols)
    /\ [][ColumnsKept]_vars

\* a successful populate of "bc" into a table that already had column a
C1_Witness ==
    /\ PopulatedOk
    /\ last.ds = "bc"
    /\ db.tables[last.t].cols = {"a", "b", "c"}

\* What the claim expects of a table populated with the datasets ids, in
\* order, and nothing else: stated from the datasets alone.
ExpectedCols(ids) == UNION {Range(Dataset(ids[i]).cols) : i \in DOMAIN ids}

ExpectedRow(d, j, cols) ==
    [k \in cols |->
        IF \E i \in DOMAIN d.cols : d.cols[i] = k
        THEN d.rows[j][CHOOSE i \in DOMAIN d.cols : d.cols[i] = k]
        ELSE NULL]

ExpectedRows(d, cols) == [j \in DOMAIN d.rows |-> ExpectedRow(d, j, cols)]

\* C2: a table that create_table created and that was then populated
\* successfully with D1 and then D2, and nothing else, has exactly the
\* columns of D1 and D2 together and the rows of D1 followed by the rows
\* of D2, each with the values it was inserted with and null in the
\* columns only the other dataset names.
C2_UnionOfTwo ==
    \A t \in Tables :
        (hist[t].k = "only" /\ Len(hist[t].ds) = 2) =>
            LET d1 == Dataset(hist[t].ds[1])
                d2 == Dataset(hist[t].ds[2])
                cols == ExpectedCols(hist[t].ds)
            IN  /\ db.tables[t].exists
                /\ db.tables[t].cols = cols
                /\ db.tables[t].rows =
                       ExpectedRows(d1, cols) \o ExpectedRows(d2, cols)

\* the end-to-end scenario: [a,b] with ("x","y"), then [b,c] with ("y2","z")
C2_Witness ==
    /\ hist["t1"] = Only(<<"ab", "bc">>)
    /\ db.tables["t1"].cols = {"a", "b", "c"}
    /\ Len(db.tables["t1"].rows) = 2
    /\ db.tables["t1"].rows[1]["c"] = NULL
    /\ db.tables["t1"].rows[2]["a"] = NULL
    /\ db.tables["t1"].rows[2]["c"] = "z"

\* a step that is a call of op: every call records itself in last
Called(op) == last'.op = op /\ vars' # vars

\* C3: create_table(conn, T) on an open connection, for a table T that
\* already exists, succeeds and leaves the committed database as it was.
C3_CreateTableIdempotent ==
    [][(Called("create_table") /\ conn = "open" /\ db.tables[last'.t].exists)
          => (last'.res = "ok" /\ db' = db)]_vars

\* C4: populate_table for a table that does not exist raises, the table
\* still does not exist afterwards and the call leaves nothing behind that
\* is or can become committed.
C4_PopulateMissingFails ==
    [][(Called("populate_table") /\ ~db.tables[last'.t].exists)
          => (last'.res = "error" /\ db' = db /\ work' = db')]_vars

\* C5: rows become committed only by the populate_table call that inserts
\* them, all n of them at once: a step that adds rows to a committed table
\* is a successful populate_table of that table and adds exactly the rows
\* of its dataset.
C5_RowsAtomic ==
    [][\A t \in Tables :
          Len(db'.tables[t].rows) > Len(db.tables[t].rows) =>
              /\ last'.op = "populate_table"
              /\ last'.t = t
              /\ last'.res = "ok"
              /\ Len(db'.tables[t].rows) =
                     Len(db.tables[t].rows) + Len(Dataset(last'.ds).rows)]_vars

\* the effect of the statement of the call in last, in the committed database
StatementCommitted ==
    IF last.op = "update_records"
    THEN /\ db.tables[last.t].exists
         /\ \A i \in DOMAIN db.tables[last.t].rows :
                db.tables[last.t].rows[i]["a"] = "u"
    ELSE "v1" \in db.views

\* C6: update_records and create_view commit exactly when their statement
\* succeeds: after a success the statement's effect is committed and no
\* transaction is open; a failure leaves the committed database as it was
\* and, when the connection stays open, no open or aborted transaction.
C6_CommitOrRollback ==
    /\ []((last.op \in {"update_records", "create_view"} /\ last.res = "ok")
            => (StatementCommitted /\ txn = "idle" /\ work = db))
    /\ [][((Called("update_records") \/ Called("create_view"))
            /\ conn = "open" /\ last'.res = "error")
            => (db' = db /\ txn' = "idle" /\ work' = db')]_vars

\* update_records failed, rolled back and left the connection open
C6_Witness ==
    /\ last.op = "update_records"
    /\ last.res = "error"
    /\ ~last.close
    /\ conn = "open"
    /\ txn = "idle"
    /\ db.tables["t1"].exists

\* C7: query_database, update_records and create_view called with an
\* open connection leave it closed when close_connection is true and open
\* when it is false, whether the statement succeeded or failed.
C7_ClosePerFlag ==
    [][((Called("query_database") \/ Called("update_records")
            \/ Called("create_view")) /\ conn = "open")
          => conn' = IF last'.close THEN "closed" ELSE "open"]_vars

\* a failed update_records with close_connection=True closed the connection
C7_Witness ==
    /\ last.op = "update_records"
    /\ last.res = "error"
    /\ last.close
    /\ conn = "closed"

\* C8: with a schema configured, the open connection's search path is the
\* configured schema whatever calls were made on it.
C8_SearchPathKept == (conn = "open" /\ schema # "") => path = schema

\* C9: a create_connection that raised left no session of its own open.
C9_NoSessionLeft ==
    (last.op = "create_connection" /\ last.res = "error") => last.sess # "open"

\* C10: a refresh whose reflection fails changes nothing: while a thread
\* is in the loop of reflect calls or in the except block, the installed
\* snapshot stays the one it found when it took the lock; the except
\* block ends the call as logged, and the call then returns to the caller
\* with the snapshot still unchanged.
C10_FailedRefreshKeepsCache ==
    [][\A p \in Threads :
          /\ pc[p] \in {"reflect", "except"} => cache' = cache
          /\ (pc[p] = "except" /\ pc'[p] # "except") =>
                (pc'[p] = "exit" /\ ret'[p] = "logged")
          /\ (pc[p] = "exit" /\ ret[p] = "logged" /\ pc'[p] # "exit") =>
                (pc'[p] = "idle" /\ cache' = cache)]_vars

\* a refresh failed on the second table with a snapshot installed before
C10_Witness ==
    \E p \in Threads :
        /\ pc[p] = "exit"
        /\ ret[p] = "logged"
        /\ Len(meta[p]) = 1
        /\ cache.installed
        /\ \A i \in DOMAIN cache.tables : cache.tables[i].n # calls[p]
              \/ cache.tables[i].by # p

\* the thread is between the start of reflection and the end of the with
\* block
InRefresh(p) == pc[p] \in {"reflect", "swap", "except", "exit"}

\* the snapshot is the whole reflection of one refresh call: every
\* configured table, in order, all reflected by the same call
WholeReflection(c) ==
    /\ Len(c.tables) = Len(CfgTables)
    /\ \A i \in DOMAIN c.tables :
          /\ c.tables[i].name = CfgTables[i]
          /\ c.tables[i].by = c.tables[1].by
          /\ c.tables[i].n = c.tables[1].n

\* C11: at most one thread is between the start of reflection and the
\* cache swap, it is the thread that holds the lock, and every snapshot
\* installed is the complete reflection of one refresh call.
C11_RefreshCriticalSection ==
    /\ \A p, q \in Threads : (InRefresh(p) /\ InRefresh(q)) => p = q
    /\ \A p \in Threads : InRefresh(p) => lock = p
    /\ cache.installed => WholeReflection(cache)

\* a thread waits for the lock while the other, which installed the
\* snapshot before, reflects again
C11_Witness ==
    \E p, q \in Threads :
        /\ pc[p] = "acquire"
        /\ pc[q] = "reflect"
        /\ Len(meta[q]) = 1
        /\ cache.installed
        /\ cache.tables[1].by = q

\* C12: every statement a display_metadata call logs takes its table
\* name and its columns from the snapshot the call found installed when
\* it read the cache, and the call never raises.
C12_DisplayOneSnapshot ==
    /\ dret # "raised"
    /\ \A i \in DOMAIN out :
          /\ out[i].name = Origin(dseen.tables[1])
          /\ out[i].cols = Origin(dseen.tables[1])

\* the statement the claim expects for a configured table, from what
\* reflection finds for it: (id INTEGER primary key, a TEXT) for t1 and
\* (b TEXT, n NUMERIC) for t2
ExpectedStatement(t) ==
    IF t = "t1"
    THEN "CREATE TABLE t1 (\n    id INT PRIMARY KEY,\n    a VARCHAR(255)\n);"
    ELSE "CREATE TABLE t2 (\n    b VARCHAR(255),\n    n VARCHAR(255)\n);"

\* C13: a new cache is empty and becomes populated only by the swap of a
\* refresh that succeeded; a display_metadata that finds it empty reports
\* that, logs no statement and does not raise; a display_metadata that
\* finds it populated logs one CREATE TABLE statement per reflected
\* table, with all its columns in reflected order; and a populated cache
\* never becomes empty again.
C13_CacheLifecycle ==
    /\ []((\A p \in Threads : calls[p] = 0) => ~cache.installed)
    /\ [][(~cache.installed /\ cache'.installed) =>
            \E p \in Threads : pc[p] = "swap" /\ ret'[p] = "refreshed"]_vars
    /\ [][cache.installed => cache'.installed]_vars
    /\ [][(dpc = "check" /\ dpc' # "check" /\ ~cache.installed) =>
            (dret' = "empty" /\ dpc' = "idle" /\ out' = <<>>)]_vars
    /\ [](dret = "empty" => out = <<>>)
    /\ [](dret = "rendered" =>
            /\ Len(out) = Len(CfgTables)
            /\ \A i \in DOMAIN out : out[i].stmt = ExpectedStatement(CfgTables[i]))

\* the cache rendered after a refresh that failed on a populated cache
C13_Witness ==
    /\ dret = "rendered"
    /\ Len(out) = 2
    /\ \E p \in Threads : ret[p] = "logged" /\ calls[p] = 2 /\ pc[p] = "idle"

\* the SQL type the claim names for a reflected type name
ClaimedType(type) ==
    IF type = "INTEGER" THEN "INT"
    ELSE IF type = "BIGINT" THEN "BIGINT"
    ELSE IF type = "BOOLEAN" THEN "BOOLEAN"
    ELSE IF type = "DATE" THEN "DATE"
    ELSE IF type = "FLOAT" THEN "FLOAT"
    ELSE IF type = "DOUBLE" THEN "DOUBLE PRECISION"
    ELSE IF type = "SERIAL" THEN "SERIAL"
    ELSE "VARCHAR(255)"

\* C14: format_column_details returns 'name SQLTYPE', followed by
\* ' PRIMARY KEY' exactly when the column is a primary key, with the
\* claim's SQLTYPE for the reflected type name and VARCHAR(255) for TEXT
\* and every type name outside the list.
C14_ColumnRendering ==
    fout # "-" =>
        fout = fcol.name \o " " \o ClaimedType(fcol.type)
                   \o (IF fcol.pk THEN " PRIMARY KEY" ELSE "")

\* a primary-key column of a type outside the mapping
C14_Witness ==
    /\ fcol = Column("n", "NUMERIC", TRUE)
    /\ fout = "n VARCHAR(255) PRIMARY KEY"

\* C15: after a create_table or populate_table that failed on a connection
\* that is still open, the connection has no open or aborted transaction
\* and nothing uncommitted is left in it.
C15_RolledBackAfterFailure ==
    (last.op \in {"create_table", "populate_table"}
        /\ last.res = "error" /\ conn = "open")
    => (txn = "idle" /\ work = db)

\* C16: a populate_table call whose ADD COLUMN statements all executed
\* successfully (open connection, transaction not aborted, table present)
\* leaves every column of its dataset committed on the table, whether or
\* not the row insertion of the call fails.
C16_AddColumnCommitted ==
    [][(Called("populate_table") /\ conn = "open" /\ txn # "aborted"
            /\ work.tables[last'.t].exists)
          => Range(Dataset(last'.ds).cols) \subseteq db'.tables[last'.t].cols]_vars

\* C16, amended: the ADD COLUMN statements of populate_table run in the
\* transaction of the call and are committed only by the commit at its
\* end: a populate_table that raises leaves the committed database as it
\* was, the columns of a committed table change only in a step of a call
\* that succeeds, and a populate_table that succeeds on a table leaves all
\* the columns of its dataset committed on it.
C16_ColumnsCommittedAtEnd ==
    /\ [][(Called("populate_table") /\ last'.res = "error") => db' = db]_vars
    /\ [][(\E t \in Tables : db'.tables[t].cols # db.tables[t].cols)
             => last'.res = "ok"]_vars
    /\ [][(Called("populate_table") /\ last'.res = "ok")
             => Range(Dataset(last'.ds).cols) \subseteq db'.tables[last'.t].cols]_vars

\* a populate_table that added column a and then had its insertion
\* rejected: the column is not committed and the transaction is aborted
C16_Witness ==
    /\ last.op = "populate_table"
    /\ last.ds = "dup"
    /\ last.res = "error"
    /\ db.tables[last.t].exists
    /\ "a" \notin db.tables[last.t].cols
    /\ txn = "aborted"

\* C18: the cursor opened by the last create_table, populate_table,
\* update_records or create_view is closed when the call has returned or
\* raised.
C18_CursorsClosed ==
    last.op \in {"create_table", "populate_table", "update_records",
                 "create_view"}
    => last.cur # "open"

\* C17: every call of refresh_metadata_cache returns, whatever the other
\* thread does; the lock is released by the step that leaves the with
\* block, after a success and after a failure alike, and a thread that is
\* not inside a call never holds it.
C17_RefreshesComplete ==
    /\ \A p \in Threads : (pc[p] # "idle") ~> (pc[p] = "idle")
    /\ [][\A p \in Threads :
            (pc[p] = "exit" /\ pc'[p] = "idle") => (lock = p /\ lock' = 0)]_vars
    /\ [](\A p \in Threads : pc[p] \in {"idle", "acquire"} => lock # p)

\* thread 1 waits for the lock behind a refresh of thread 2 that failed
C17_Witness ==
    /\ pc[1] = "acquire"
    /\ lock = 2
    /\ pc[2] = "exit"
    /\ ret[2] = "logged"

====
